---- MODULE Spec2Model ----
(***************************************************************************)
(* A model of remora_tracker/app.py: the Dash page with its three          *)
(* callbacks (sync_preset_to_slider, update_interval, update_live_price),  *)
(* the controls that trigger them and the recompute the third one does.    *)
(*                                                                         *)
(* Numbers.  Prices and barriers are integers in cents (97.14 is 9714).    *)
(* A buffer percentage is an exact fraction [num, den] in lowest terms;    *)
(* the ":.2f" format is the fraction rounded to hundredths.  The real      *)
(* valued drift, volatility and exp() of the simulation are kept by what   *)
(* decides the shape of the result: whether they are defined (NaN or not), *)
(* whether the volatility is zero, and a per-mille growth factor per cell. *)
(***************************************************************************)
EXTENDS Integers, Sequences, FiniteSets, TLC

VARIABLES
    preset,         \* preset-dropdown.value
    slider,         \* interval-slider.value
    interval,       \* interval-component.interval (ms)
    n_intervals,    \* interval-component.n_intervals
    label,          \* ticker-dropdown.value
    warrants_data,  \* the module-level dict of instruments
    pending,        \* callback invocations dispatched and not yet run
    call,           \* what the last run of update_live_price was given
    out             \* live-price-display.children, buffer-chart.figure,
                    \* simulation-chart.figure

vars == <<preset, slider, interval, n_intervals, label, warrants_data,
          pending, call, out>>

----------------------------------------------------------------------------
(* Bounds of the model *)

MaxPending == 1   \* an event arrives with fewer callbacks than this in flight
MaxTicks == 1     \* timer ticks in a run
MaxLen == 3       \* closes in a fetched series

(* Closing prices a fetch may carry, in cents *)
Prices == {5800, 10000}

(* Values a slider move may carry (45 is off the step-10 grid: the callback *)
(* takes what the request carries) *)
SliderInputs == {45}

----------------------------------------------------------------------------
(* Static data of the page *)

None == "None"

WES == "WES Tail Hedge (KOQ)"

WarrantsData == (WES :> [long_ko |-> 6000, short_ko |-> 9714, gearing |-> 73])

interval_presets ==
    [k \in {"Turbo Mode (10s)", "Coffee Break (120s)", "Cruise (60s)",
            "Nap Time (300s)"} |->
        CASE k = "Turbo Mode (10s)" -> 10
          [] k = "Coffee Break (120s)" -> 120
          [] k = "Cruise (60s)" -> 60
          [] k = "Nap Time (300s)" -> 300]

PresetValues == {interval_presets[k] : k \in DOMAIN interval_presets}

paths == 10
steps == 30
dt == 1

Callbacks == {"sync_preset_to_slider", "update_interval", "update_live_price"}

----------------------------------------------------------------------------
(* Arithmetic *)

Abs(x) == IF x < 0 THEN -x ELSE x

RECURSIVE GCD(_, _)
GCD(a, b) == IF b = 0 THEN a ELSE GCD(b, a % b)

(* n/d in lowest terms, d > 0 *)
Rat(n, d) ==
    LET g == GCD(Abs(n), d)
    IN [num |-> n \div g, den |-> d \div g]

RatTimes(q, k) == Rat(q.num * k, q.den)

RatGE(q, k) == q.num >= k * q.den

(* f"{q:.2f}": q in hundredths, rounded to nearest *)
Fmt2(q) ==
    LET a == Abs(q.num) * 100
        r == (2 * a + q.den) \div (2 * q.den)
    IN IF q.num < 0 THEN -r ELSE r

----------------------------------------------------------------------------
(* html and plotly values *)

P(text) == [tag |-> "P", text |-> text, children |-> <<>>]

Div(children) == [tag |-> "Div", text |-> "", children |-> children]

(* A component whose children were never set *)
NoChildren == [tag |-> "None", text |-> "", children |-> <<>>]

(* go.Figure() *)
Figure == [data |-> <<>>, hlines |-> <<>>]

(* go.Indicator(mode="gauge+number", value=.., title=.., gauge={bar: color}) *)
Indicator(value, title, color) ==
    [value |-> value, title |-> title, color |-> color]

(* go.Scatter(x=list(range(steps)), y=.., name=f"Path {j+1}") *)
Scatter(y, j) == [y |-> y, name |-> j]

----------------------------------------------------------------------------
(* Floating point values of the simulation: a number of cents, or NaN *)

NaN == [nan |-> TRUE, v |-> 0]

Num(v) == [nan |-> FALSE, v |-> v]

----------------------------------------------------------------------------
(* The callbacks' code *)

(* Faulty variant: the layout's default instead of the selected value *)
sync_preset_default(preset_value) == 60

sync_preset_to_slider(preset_value) == preset_value

(* Faulty variant: seconds handed to the timer as if they were milliseconds *)
update_interval_unscaled(seconds) == seconds

update_interval(seconds) == seconds * 1000

(* Faulty variant: iloc[0], the oldest close *)
current_price_first(Close) == Close[1]

(* hist['Close'].iloc[-1] *)
current_price_of(Close) == Close[Len(Close)]

long_buffer_of(current_price, long_ko) ==
    RatTimes(Rat(current_price - long_ko, long_ko), 100)

short_buffer_of(current_price, short_ko) ==
    RatTimes(Rat(short_ko - current_price, short_ko), 100)

long_color_of(long_buffer) == IF RatGE(long_buffer, 5) THEN "green" ELSE "orange"

short_color_of(short_buffer) == IF RatGE(short_buffer, 5) THEN "red" ELSE "darkred"

(* Faulty variant: the thresholds taken inclusively *)
risk_tag_inclusive(gearing) ==
    IF gearing >= 50 THEN "HIGH RISK"
    ELSE IF gearing >= 30 THEN "MODERATE" ELSE "Stable"

risk_tag_of(gearing) ==
    IF gearing > 50 THEN "HIGH RISK"
    ELSE IF gearing > 30 THEN "MODERATE" ELSE "Stable"

(* The four lines of the text panel, each with the values its f-string formats *)
display_text_of(current_price, long_ko, short_ko, gearing, long_buffer, short_buffer, risk_tag) ==
    Div(<< [current_price |-> current_price],
           [long_ko |-> long_ko, buffer |-> Fmt2(long_buffer)],
           [short_ko |-> short_ko, buffer |-> Fmt2(short_buffer)],
           [gearing |-> gearing, risk_tag |-> risk_tag] >>)

fig_of(long_buffer, short_buffer, long_color, short_color) ==
    [data |-> << Indicator(long_buffer, "LONG KO Buffer %", long_color),
                 Indicator(short_buffer, "SHORT KO Buffer %", short_color) >>,
     hlines |-> <<>>]

(* np.log(Close / Close.shift(1)).dropna(): one entry per consecutive pair, *)
(* the logarithm kept by its argument Close[t] / Close[t-1] *)
log_returns_of(Close) ==
    [t \in 1..(Len(Close) - 1) |-> Rat(Close[t + 1], Close[t])]

(* log_returns.mean(): NaN for an empty sample *)
mu_of(log_returns) ==
    [nan |-> Len(log_returns) = 0, sample |-> log_returns]

(* log_returns.std(), pandas' sample deviation (ddof=1): NaN below two *)
(* entries, zero when all entries are equal *)
sigma_of(log_returns) ==
    [nan |-> Len(log_returns) < 2,
     zero |-> \A a, b \in 1..Len(log_returns) : log_returns[a] = log_returns[b]]

(* A numpy array holds values, not a rule to compute them: the function is *)
(* turned into the sequence of its values *)
array(f) == f \o <<>>

(* np.random.normal(0, 1, size) from generator state s, one of three values *)
(* per draw *)
normal(s, size) == array([j \in 1..size |-> ((s + j) % 3) - 1])

(* np.exp((mu - 0.5 * sigma**2)*dt + sigma * np.sqrt(dt) * z) as a fraction: *)
(* NaN when mu or sigma is; exp(mu), the common ratio, when sigma is zero;  *)
(* otherwise decided by the draw *)
growth_of(mu, sigma, z) ==
    IF mu.nan \/ sigma.nan THEN [nan |-> TRUE, num |-> 0, den |-> 1]
    ELSE IF sigma.zero
         THEN [nan |-> FALSE, num |-> mu.sample[1].num, den |-> mu.sample[1].den]
         ELSE [nan |-> FALSE, num |-> 1000 + 100 * z * dt, den |-> 1000]

(* one cell of sim_paths[i-1] * np.exp(..) *)
step_of(prev, g) ==
    IF prev.nan \/ g.nan THEN NaN ELSE Num((prev.v * g.num) \div g.den)

(* Faulty variant: every row stepped from row 0 *)
next_row_from_first(sim_paths, i, mu, sigma, rand) ==
    array([j \in 1..paths |->
              step_of(sim_paths[1][j], growth_of(mu, sigma, rand[j]))])

(* sim_paths[i] = sim_paths[i-1] * np.exp(..), from the row above *)
next_row(sim_paths, i, mu, sigma, rand) ==
    array([j \in 1..paths |->
              step_of(sim_paths[i][j], growth_of(mu, sigma, rand[j]))])

(* the loop "for i in range(1, steps)": sim_paths holds rows 0..i-1 of the *)
(* code (1..i here) *)
RECURSIVE sim_loop(_, _, _, _, _)
sim_loop(sim_paths, i, mu, sigma, seed) ==
    IF i >= steps THEN sim_paths
    ELSE sim_loop(Append(sim_paths, next_row(sim_paths, i, mu, sigma,
                                             normal(seed + i, paths))),
                  i + 1, mu, sigma, seed)

(* sim_paths = np.zeros((steps, paths)); sim_paths[0] = current_price; loop *)
sim_paths_of(current_price, mu, sigma, seed) ==
    sim_loop(<< array([j \in 1..paths |-> Num(current_price)]) >>, 1,
             mu, sigma, seed)

sim_fig_of(sim_paths, long_ko, short_ko) ==
    [data |-> array([j \in 1..paths |->
                  Scatter(array([i \in 1..steps |-> sim_paths[i][j]]), j)]),
     hlines |-> <<long_ko, short_ko>>]

(* A fetch: history() raises, or returns a frame with these closes *)
Raised == [raised |-> TRUE, Close |-> <<>>]

Hist(Close) == [raised |-> FALSE, Close |-> Close]

(* The body of update_live_price after the first return *)
compute(hist, label_, data, seed) ==
    LET current_price == current_price_of(hist.Close)
        long_ko == data[label_].long_ko
        short_ko == data[label_].short_ko
        gearing == data[label_].gearing
        long_buffer == long_buffer_of(current_price, long_ko)
        short_buffer == short_buffer_of(current_price, short_ko)
        long_color == long_color_of(long_buffer)
        short_color == short_color_of(short_buffer)
        risk_tag == risk_tag_of(gearing)
        log_returns == log_returns_of(hist.Close)
        mu == mu_of(log_returns)
        sigma == sigma_of(log_returns)
        sim_paths == sim_paths_of(current_price, mu, sigma, seed)
    IN [children |-> display_text_of(current_price, long_ko, short_ko, gearing,
                                     long_buffer, short_buffer, risk_tag),
        figure |-> fig_of(long_buffer, short_buffer, long_color, short_color),
        sim_figure |-> sim_fig_of(sim_paths, long_ko, short_ko)]

(* Faulty variant: the instrument looked up before the frame is tested *)
update_live_price_lookup_first(n, label_, hist, data, seed) ==
    IF hist.raised
    THEN [children |-> P("Error loading data: fetch"),
          figure |-> Figure, sim_figure |-> Figure]
    ELSE IF label_ \notin DOMAIN data
    THEN [children |-> P("Error loading data: KeyError"),
          figure |-> Figure, sim_figure |-> Figure]
    ELSE IF Len(hist.Close) = 0
    THEN [children |-> P("No data available..."),
          figure |-> Figure, sim_figure |-> Figure]
    ELSE compute(hist, label_, data, seed)

(* Faulty variant: the frame read n rows back, so that a result depends on *)
(* the ticks before it *)
update_live_price_by_tick(n, label_, hist, data, seed) ==
    IF hist.raised
    THEN [children |-> P("Error loading data: fetch"),
          figure |-> Figure, sim_figure |-> Figure]
    ELSE IF Len(hist.Close) = 0
    THEN [children |-> P("No data available..."),
          figure |-> Figure, sim_figure |-> Figure]
    ELSE IF label_ \notin DOMAIN data
    THEN [children |-> P("Error loading data: KeyError"),
          figure |-> Figure, sim_figure |-> Figure]
    ELSE compute(Hist(SubSeq(hist.Close, 1,
                             Len(hist.Close) - (n % Len(hist.Close)))),
                 label_, data, seed)

(* update_live_price(n, label): the try block and its except clause *)
update_live_price(n, label_, hist, data, seed) ==
    IF hist.raised
    THEN [children |-> P("Error loading data: fetch"),
          figure |-> Figure, sim_figure |-> Figure]
    ELSE IF Len(hist.Close) = 0
    THEN [children |-> P("No data available..."),
          figure |-> Figure, sim_figure |-> Figure]
    ELSE IF label_ \notin DOMAIN data
    THEN [children |-> P("Error loading data: KeyError"),
          figure |-> Figure, sim_figure |-> Figure]
    ELSE compute(hist, label_, data, seed)

----------------------------------------------------------------------------
(* The page: its controls, the timer and the dispatch of the callbacks *)

Total(p) == p["sync_preset_to_slider"] + p["update_interval"] + p["update_live_price"]

Fire(p, cb) == [p EXCEPT ![cb] = @ + 1]

Done(p, cb) == [p EXCEPT ![cb] = @ - 1]

(* What history(period="6mo", interval="1d") may give *)
Series == UNION {[1..k -> Prices] : k \in 0..MaxLen}

Fetches == {Raised} \cup {Hist(c) : c \in Series}

(* States the unseeded generator may be in when a recompute starts *)
Seeds == {0, 1}

(* Instrument tables other than the one configured, for the computations *)
(* taken as functions of the instrument *)
Gearings == {20, 30, 40, 50, 73}

Barriers == {<<6000, 9714>>, <<5000, 12000>>}

Configs ==
    {(WES :> [long_ko |-> b[1], short_ko |-> b[2], gearing |-> g]) :
        b \in Barriers, g \in Gearings}

(* update_live_price reads nothing but what it is given, so that its results *)
(* are tabulated once over everything the page can give it *)
Results ==
    [n \in 0..MaxTicks |->
      [l \in {WES, None} |->
        [d \in {WarrantsData} \cup Configs |->
          [h \in Fetches |->
            [s \in Seeds |-> update_live_price(n, l, h, d, s)] @@ <<>>] @@ <<>>]
        @@ <<>>] @@ <<>>] @@ <<>>

(* The layout's values; on load the callbacks whose inputs no callback *)
(* writes are dispatched once *)
Layout ==
    /\ preset = 60
    /\ slider = 60
    /\ interval = 60 * 1000
    /\ n_intervals = 0
    /\ label = WES
    /\ pending = [cb \in Callbacks |-> IF cb = "update_interval" THEN 0 ELSE 1]
    /\ call = [ran |-> FALSE, hist |-> Hist(<<>>), label |-> WES]
    /\ out = [children |-> NoChildren, figure |-> Figure, sim_figure |-> Figure]

Init ==
    /\ Layout
    /\ warrants_data = WarrantsData

(* The user picks another preset: Input('preset-dropdown', 'value') fires *)
SelectPreset(v) ==
    /\ Total(pending) < MaxPending
    /\ v # preset
    /\ preset' = v
    /\ pending' = Fire(pending, "sync_preset_to_slider")
    /\ UNCHANGED <<slider, interval, n_intervals, label, warrants_data, call, out>>

(* The user moves the slider: Input('interval-slider', 'value') fires *)
MoveSlider(s) ==
    /\ Total(pending) < MaxPending
    /\ s # slider
    /\ slider' = s
    /\ pending' = Fire(pending, "update_interval")
    /\ UNCHANGED <<preset, interval, n_intervals, label, warrants_data, call, out>>

(* The user picks an instrument of the ticker dropdown *)
SelectTicker(l) ==
    /\ Total(pending) < MaxPending
    /\ l # label
    /\ label' = l
    /\ pending' = Fire(pending, "update_live_price")
    /\ UNCHANGED <<preset, slider, interval, n_intervals, warrants_data, call, out>>

(* The user clears the ticker dropdown: its value becomes None *)
ClearTicker ==
    /\ Total(pending) < MaxPending
    /\ label # None
    /\ label' = None
    /\ pending' = Fire(pending, "update_live_price")
    /\ UNCHANGED <<preset, slider, interval, n_intervals, warrants_data, call, out>>

(* Faulty variant: a tick that dispatches nothing *)
Tick_silent ==
    /\ Total(pending) < MaxPending
    /\ n_intervals < MaxTicks
    /\ n_intervals' = n_intervals + 1
    /\ UNCHANGED <<preset, slider, interval, label, warrants_data, pending, call, out>>

(* The timer elapses: n_intervals grows, Input('interval-component', *)
(* 'n_intervals') fires *)
Tick ==
    /\ Total(pending) < MaxPending
    /\ n_intervals < MaxTicks
    /\ n_intervals' = n_intervals + 1
    /\ pending' = Fire(pending, "update_live_price")
    /\ UNCHANGED <<preset, slider, interval, label, warrants_data, call, out>>

(* sync_preset_to_slider runs; its output is update_interval's input *)
RunSyncPresetToSlider ==
    /\ pending["sync_preset_to_slider"] > 0
    /\ slider' = sync_preset_to_slider(preset)
    /\ pending' = Fire(Done(pending, "sync_preset_to_slider"), "update_interval")
    /\ UNCHANGED <<preset, interval, n_intervals, label, warrants_data, call, out>>

RunUpdateInterval ==
    /\ pending["update_interval"] > 0
    /\ interval' = update_interval(slider)
    /\ pending' = Done(pending, "update_interval")
    /\ UNCHANGED <<preset, slider, n_intervals, label, warrants_data, call, out>>

(* update_live_price runs on what the feed and the generator give it *)
RunUpdateLivePrice ==
    /\ pending["update_live_price"] > 0
    /\ \E hist \in Fetches, seed \in Seeds :
          /\ out' = Results[n_intervals][label][warrants_data][hist][seed]
          /\ call' = [ran |-> TRUE, hist |-> hist, label |-> label]
    /\ pending' = Done(pending, "update_live_price")
    /\ UNCHANGED <<preset, slider, interval, n_intervals, label, warrants_data>>

Next ==
    \/ \E v \in PresetValues : SelectPreset(v)
    \/ \E s \in SliderInputs : MoveSlider(s)
    \/ \E l \in DOMAIN warrants_data : SelectTicker(l)
    \/ ClearTicker
    \/ Tick
    \/ RunSyncPresetToSlider
    \/ RunUpdateInterval
    \/ RunUpdateLivePrice

Spec == Init /\ [][Next]_vars

(* The same page started with another instrument table *)
InitCalc ==
    /\ Layout
    /\ warrants_data \in Configs

(* ... and with the interval controls left alone *)
NextCalc ==
    \/ \E l \in DOMAIN warrants_data : SelectTicker(l)
    \/ ClearTicker
    \/ Tick
    \/ RunSyncPresetToSlider
    \/ RunUpdateInterval
    \/ RunUpdateLivePrice

SpecCalc == InitCalc /\ [][NextCalc]_vars

----------------------------------------------------------------------------
(* Properties *)

(* No interval callback is in flight *)
Settled ==
    /\ pending["sync_preset_to_slider"] = 0
    /\ pending["update_interval"] = 0

(* The last recompute returned the text panel and both charts *)
Ok == call.ran /\ out.children.tag = "Div"

(* The steps that run a callback *)
SyncRan == pending'["sync_preset_to_slider"] < pending["sync_preset_to_slider"]

IntervalRan ==
    /\ pending'["update_interval"] < pending["update_interval"]
    /\ ~SyncRan

LivePriceRan == pending'["update_live_price"] < pending["update_live_price"]

(* The steps in which the user changes the refresh interval *)
IntervalChanged == preset' # preset \/ (slider' # slider /\ ~SyncRan)

(* Row i (1..steps), column j (1..paths) of the grid a simulation chart shows *)
Cell(o, i, j) == o.sim_figure.data[j].y[i]

C2_InsufficientDataSignalled ==
    (call.ran /\ ~call.hist.raised /\ Len(call.hist.Close) < 2) =>
        /\ out.children.tag = "P"
        /\ \A j \in 1..Len(out.sim_figure.data) :
               \A i \in 1..Len(out.sim_figure.data[j].y) : ~Cell(out, i, j).nan

(* C3: a recompute whose fetch gave an empty series returns "No data        *)
(* available..." with two empty figures, whatever the ticker label.          *)
C3_EmptySeriesNoData ==
    (call.ran /\ ~call.hist.raised /\ Len(call.hist.Close) = 0) =>
        out = [children |-> P("No data available..."),
               figure |-> Figure, sim_figure |-> Figure]

(* C3 witness: the empty series met the cleared ticker *)
C3_Witness ==
    /\ call.ran /\ ~call.hist.raised /\ call.hist.Close = <<>>
    /\ call.label = None
    /\ out.children.text = "No data available..."

(* C4: a recompute returns either one message with two empty charts, or the  *)
(* text panel and the gauges with a simulation chart that holds 10 paths of  *)
(* numbers.                                                                  *)
C4_AllOrNothing ==
    call.ran =>
        \/ /\ out.children.tag = "P"
           /\ out.figure = Figure
           /\ out.sim_figure = Figure
        \/ /\ out.children.tag = "Div"
           /\ Len(out.figure.data) = 2
           /\ Len(out.sim_figure.data) = paths
           /\ \A j \in 1..paths : \A i \in 1..steps : ~Cell(out, i, j).nan

(* C5: the grid of a successful recompute has 30 rows and 10 columns, row 0  *)
(* is the last close in every column, and every later cell comes from the    *)
(* cell above it by one multiplication (NaN when the factor or the cell      *)
(* above is NaN).                                                            *)
C5_GridShape ==
    Ok =>
        /\ Len(out.sim_figure.data) = 10
        /\ \A j \in 1..10 :
              /\ Len(out.sim_figure.data[j].y) = 30
              /\ Cell(out, 1, j) = Num(call.hist.Close[Len(call.hist.Close)])
              /\ \A i \in 2..30 :
                    \/ Cell(out, i, j).nan
                    \/ /\ ~Cell(out, i - 1, j).nan
                       /\ \E g \in {900, 1000, 1100} :
                             Cell(out, i, j).v = (Cell(out, i - 1, j).v * g) \div 1000

(* C5 witness: a grid of numbers whose second row left the current price *)
C5_Witness ==
    /\ Ok
    /\ \A j \in 1..10 : ~Cell(out, 30, j).nan
    /\ \E j \in 1..10 : Cell(out, 2, j) # Cell(out, 1, j)

(* C6: the risk tag shown is HIGH RISK when gearing > 50, MODERATE when      *)
(* 30 < gearing <= 50 and Stable when gearing <= 30, for every price.        *)
C6_RiskTagSteps ==
    Ok =>
        LET g == warrants_data[call.label].gearing
            tag == out.children.children[4].risk_tag
        IN /\ g > 50 => tag = "HIGH RISK"
           /\ (30 < g /\ g <= 50) => tag = "MODERATE"
           /\ g <= 30 => tag = "Stable"

(* C6 witness: gearing 50, on the boundary, shown as MODERATE *)
C6_Witness ==
    /\ Ok
    /\ warrants_data[call.label].gearing = 50
    /\ out.children.children[4].risk_tag = "MODERATE"

(* C7: with P the last close and L, S the barriers, the gauges show          *)
(* long_buffer = (P - L) / L * 100 and short_buffer = (S - P) / S * 100,     *)
(* negative exactly when P < L and when P > S, and the text panel shows      *)
(* them rounded to two decimals.                                             *)
C7_Buffers ==
    Ok =>
        LET p == call.hist.Close[Len(call.hist.Close)]
            L == warrants_data[call.label].long_ko
            S == warrants_data[call.label].short_ko
            lb == out.figure.data[1].value
            sb == out.figure.data[2].value
            lt == out.children.children[2].buffer
            st == out.children.children[3].buffer
        IN /\ lb.den > 0 /\ sb.den > 0
           /\ lb.num * L = (p - L) * 100 * lb.den
           /\ sb.num * S = (S - p) * 100 * sb.den
           /\ lb.num < 0 <=> p < L
           /\ sb.num < 0 <=> p > S
           /\ 2 * Abs(lt * lb.den - 100 * lb.num) <= lb.den
           /\ 2 * Abs(st * sb.den - 100 * sb.num) <= sb.den

(* C7 witness: P = 100.00 against L = 60.00 and S = 97.14 shows 66.67 and    *)
(* -2.94 *)
C7_Witness ==
    /\ Ok
    /\ call.hist.Close[Len(call.hist.Close)] = 10000
    /\ warrants_data[call.label].long_ko = 6000
    /\ warrants_data[call.label].short_ko = 9714
    /\ out.children.children[2].buffer = 6667
    /\ out.children.children[3].buffer = -294

(* C8 as claimed: every timer tick, ticker change and interval change        *)
(* dispatches one recompute.                                                 *)
C8_EveryEventRecomputes ==
    [][ (n_intervals' # n_intervals \/ label' # label \/ IntervalChanged) =>
            pending'["update_live_price"] = pending["update_live_price"] + 1 ]_vars

(* C8 amended: every timer tick and every ticker change dispatches one       *)
(* recompute; a preset or slider change dispatches none.                     *)
C8_TickAndTickerRecompute ==
    [][ /\ (n_intervals' # n_intervals \/ label' # label) =>
              pending'["update_live_price"] = pending["update_live_price"] + 1
        /\ IntervalChanged =>
              pending'["update_live_price"] = pending["update_live_price"] ]_vars

(* C8 witness: after the first recompute a tick has dispatched another *)
C8_Witness ==
    call.ran /\ n_intervals = 1 /\ pending["update_live_price"] = 1

(* C9 as claimed: once the interval callbacks have settled the preset        *)
(* selector and the slider show the same value.                              *)
C9_SliderEqualsPreset == Settled => slider = preset

(* C9 amended: the sync goes one way; sync_preset_to_slider sets the slider  *)
(* to the preset, and nothing that changes the slider changes the preset.    *)
C9_PresetDrivesSlider ==
    [][ /\ SyncRan => (slider' = preset /\ preset' = preset)
        /\ slider' # slider => preset' = preset ]_vars

(* C9 witness: preset 300 was selected, the slider then moved away from it *)
C9_Witness ==
    Settled /\ preset = 300 /\ slider = 45

(* The buffer result the series Close and the instrument c determine *)
BufferOf(Close, c) ==
    LET p == Close[Len(Close)]
        lb == Rat((p - c.long_ko) * 100, c.long_ko)
        sb == Rat((c.short_ko - p) * 100, c.short_ko)
    IN [children |->
            Div(<< [current_price |-> p],
                   [long_ko |-> c.long_ko, buffer |-> Fmt2(lb)],
                   [short_ko |-> c.short_ko, buffer |-> Fmt2(sb)],
                   [gearing |-> c.gearing,
                    risk_tag |-> IF c.gearing > 50 THEN "HIGH RISK"
                                 ELSE IF c.gearing > 30 THEN "MODERATE"
                                 ELSE "Stable"] >>),
        figure |->
            [data |-> << Indicator(lb, "LONG KO Buffer %",
                                   IF lb.num >= 5 * lb.den THEN "green" ELSE "orange"),
                         Indicator(sb, "SHORT KO Buffer %",
                                   IF sb.num >= 5 * sb.den THEN "red" ELSE "darkred") >>,
             hlines |-> <<>>]]

(* C10: a recompute changes neither the instrument table nor the controls    *)
(* nor the timer, and the text panel and gauges it returns are the function  *)
(* BufferOf of the series it fetched and the selected instrument alone.      *)
C10_NoStateBetweenTicks ==
    [][ LivePriceRan =>
          /\ UNCHANGED <<warrants_data, interval, preset, slider, n_intervals, label>>
          /\ Ok' =>
               [children |-> out'.children, figure |-> out'.figure]
                   = BufferOf(call'.hist.Close, warrants_data[call'.label]) ]_vars

(* C10 witness: a recompute that came after a tick, a preset change and a    *)
(* slider move *)
C10_Witness ==
    Ok /\ n_intervals = 1 /\ preset = 300 /\ slider = 45 /\ interval = 45000
       /\ pending["update_live_price"] = 0

====
